---- MODULE Spec2Model ----
(***************************************************************************)
(* Model of the grassfinder_wasm core (src/wasm/grassfinder_wasm/src/lib.rs): *)
(* the 12-bit positional signature, the nibble comparison rules and the two *)
(* box scanners scan_strict_box and scan_scored_box.                        *)
(*                                                                         *)
(* i32 values are TLA+ integers in -2^31 .. 2^31-1.  i64/u64 values are    *)
(* sequences of 8 bytes, least significant first, in two's complement, so  *)
(* that the wrapping 64-bit arithmetic of the source is computed limb by   *)
(* limb without leaving the 32-bit integers of the model checker.          *)
(***************************************************************************)
EXTENDS Integers, Sequences, FiniteSets, TLC

(***************************************************************************)
(* Fixed-width arithmetic                                                   *)
(***************************************************************************)

MaxI32 == 2147483647

MinI32 == -MaxI32 - 1

\* The k low bytes of a natural number v, least significant first.
RECURSIVE Bytes(_, _)
Bytes(v, k) == IF k = 0 THEN <<>> ELSE <<v % 256>> \o Bytes(v \div 256, k - 1)

\* The 4 bytes of an i32 in two's complement.
I32Bytes(x) ==
  IF x >= 0 THEN Bytes(x, 4)
  ELSE LET b == Bytes((x + MaxI32) + 1, 4)
       IN  [b EXCEPT ![4] = b[4] + 128]

\* `v as i64` for a 4-byte i32: sign extension to 8 bytes.
SignExtend(b) ==
  b \o (IF b[4] >= 128 THEN <<255, 255, 255, 255>> ELSE <<0, 0, 0, 0>>)

\* `x as i64` for an i32 integer x.
as_i64(x) == SignExtend(I32Bytes(x))

\* Sum of a[j] * b[i + 1 - j] for j in 1..i: column i of the schoolbook product.
RECURSIVE ColSum(_, _, _, _)
ColSum(a, b, i, j) ==
  IF j > i THEN 0 ELSE a[j] * b[i + 1 - j] + ColSum(a, b, i, j + 1)

RECURSIVE MulFrom(_, _, _, _, _)
MulFrom(a, b, k, i, carry) ==
  IF i > k THEN <<>>
  ELSE LET s == carry + ColSum(a, b, i, 1)
       IN  <<s % 256>> \o MulFrom(a, b, k, i + 1, s \div 256)

\* wrapping_mul on k-byte operands: the product modulo 2^(8k).
wrapping_mul(a, b) == MulFrom(a, b, Len(a), 1, 0)

RECURSIVE AddFrom(_, _, _, _)
AddFrom(a, b, i, carry) ==
  IF i > Len(a) THEN <<>>
  ELSE LET s == a[i] + b[i] + carry
       IN  <<s % 256>> \o AddFrom(a, b, i + 1, s \div 256)

\* wrapping_add on k-byte operands: the sum modulo 2^(8k).
wrapping_add(a, b) == AddFrom(a, b, 1, 0)

\* Bitwise exclusive or and bitwise and of two naturals.
RECURSIVE XorNat(_, _)
XorNat(a, b) ==
  IF a = 0 THEN b
  ELSE IF b = 0 THEN a
  ELSE ((a + b) % 2) + 2 * XorNat(a \div 2, b \div 2)

RECURSIVE BitAnd(_, _)
BitAnd(a, b) ==
  IF a = 0 \/ b = 0 THEN 0
  ELSE ((a % 2) * (b % 2)) + 2 * BitAnd(a \div 2, b \div 2)

\* `^` on two i64 values.
xor_i64(a, b) == [i \in 1..8 |-> XorNat(a[i], b[i])]

\* x.wrapping_add(d) on i32 integers.
wrapping_add_i32(x, d) ==
  IF d > 0 /\ x > MaxI32 - d THEN (x + MinI32) + (d + MinI32)
  ELSE IF d < 0 /\ x < MinI32 - d THEN ((x + MaxI32) + 1) + ((d + MaxI32) + 1)
  ELSE x + d

(***************************************************************************)
(* Signature function                                                       *)
(***************************************************************************)

XMul == 3129871

ZMul == 116129781

LMul == 42317861

LAdd == 11

\* packed_offset_12bit with `+ 11` in place of `+ l * 11`.
packed_offset_12bit_add11(x, y, z, post1_12) ==
  LET yy     == IF post1_12 THEN 0 ELSE y
      x_term == SignExtend(wrapping_mul(I32Bytes(x), Bytes(XMul, 4)))
      z_term == wrapping_mul(as_i64(z), Bytes(ZMul, 8))
      l      == xor_i64(xor_i64(x_term, z_term), as_i64(yy))
      l2     == wrapping_add(
                  wrapping_mul(wrapping_mul(l, l), Bytes(LMul, 8)),
                  Bytes(LAdd, 8))
  IN  l2[3] + 256 * (l2[4] % 16)

packed_offset_12bit(x, y, z, post1_12) ==
  LET yy     == IF post1_12 THEN 0 ELSE y
      x_term == SignExtend(wrapping_mul(I32Bytes(x), Bytes(XMul, 4)))
      z_term == wrapping_mul(as_i64(z), Bytes(ZMul, 8))
      l      == xor_i64(xor_i64(x_term, z_term), as_i64(yy))
      l2     == wrapping_add(
                  wrapping_mul(wrapping_mul(l, l), Bytes(LMul, 8)),
                  wrapping_mul(l, Bytes(LAdd, 8)))
  IN  l2[3] + 256 * (l2[4] % 16)

(***************************************************************************)
(* Bounds and inputs of the model                                           *)
(***************************************************************************)

\* The upper bounds x1, y1, z1 of a box range over 0..MaxCoord; the lower
\* bounds x0, y0, z0 are 0 or 1.
MaxCoord == 1

\* Constraint lists have at most MaxN entries.
MaxN == 2

\* A max_matches below the number of matches of a full box.
TruncAt == 2

Entry(dx, dy, dz, packed, mask, drip) ==
  [dx |-> dx, dy |-> dy, dz |-> dz, packed |-> packed, mask |-> mask, drip |-> drip]

\* Constraint entries: drip low zone on axis 2 (0x200 under 0xF00), drip high
\* zones on axes 0 and 2 (0xC0D under 0xF0F), drip with axis 1 and a mid-zone
\* axis 0 (0x05B under 0x0FF), an exact nibble with a y offset (0x005 under
\* 0x00F), a mask that is not nibble aligned (0x003), an offset that wraps
\* around i32.
Pool ==
  << Entry(0, 0, 0, 512, 3840, 1),
     Entry(0, 0, 1, 3085, 3855, 1),
     Entry(1, 0, 0, 91, 255, 1),
     Entry(0, 1, 0, 5, 15, 0),
     Entry(0, 0, 0, 3, 3, 0),
     Entry(0, 0, MaxI32, 8, 15, 0) >>

\* Entries whose mask is 0, used alone.
ZeroMaskPool ==
  { Entry(d, d, d, packed, 0, drip) : d \in {0, 1}, packed \in {0, 1}, drip \in {0, 1} }

OffsetVals == {0, 1, MaxI32}

RECURSIVE IdxSeq(_)
IdxSeq(S) ==
  IF S = {} THEN <<>>
  ELSE LET m == CHOOSE k \in S : \A j \in S : k <= j
       IN  <<m>> \o IdxSeq(S \ {m})

\* Lists of at most MaxN entries of Pool, in the order of Pool.
PoolLists ==
  { [i \in 1..Len(IdxSeq(S)) |-> Pool[IdxSeq(S)[i]]] :
      S \in {T \in SUBSET (1..Len(Pool)) : Cardinality(T) <= MaxN} }

ZeroMaskLists == { <<e>> : e \in ZeroMaskPool }

EntryLists == PoolLists \cup ZeroMaskLists

\* Lists for the calls whose arrays may differ in length.
SingleLists == { <<Pool[1]>>, <<Pool[4]>> }

DropLast(q) == SubSeq(q, 1, Len(q) - 1)

\* The six parallel arrays of a list of entries; short = k in 1..6 drops the
\* last element of the k-th array, so that the lengths differ.
Arrays(es, short) ==
  LET col(k, f) == IF short = k THEN DropLast(f) ELSE f
  IN  [ rel_dx     |-> col(1, [i \in 1..Len(es) |-> es[i].dx]),
        rel_dy     |-> col(2, [i \in 1..Len(es) |-> es[i].dy]),
        rel_dz     |-> col(3, [i \in 1..Len(es) |-> es[i].dz]),
        rel_packed |-> col(4, [i \in 1..Len(es) |-> es[i].packed]),
        rel_mask   |-> col(5, [i \in 1..Len(es) |-> es[i].mask]),
        rel_drip   |-> col(6, [i \in 1..Len(es) |-> es[i].drip]) ]

Coord == 0..MaxCoord

Corner == 0..1

Boxes == [x0 : Corner, x1 : Coord, y0 : Corner, y1 : Coord, z0 : Corner, z1 : Coord]

ValidBoxes == { b \in Boxes : b.x0 <= b.x1 /\ b.y0 <= b.y1 /\ b.z0 <= b.z1 }

\* Number of candidates of the largest box.
BoxCap == (MaxCoord + 1) * (MaxCoord + 1) * (MaxCoord + 1)

MatchLimits == {0, TruncAt, BoxCap}

TolVals == {0, 2}

ScoreVals == {-1, 0, 4}

\* Pairs (tol, max_score); under a negative max_score tol plays no part.
ScoreParams == { p \in TolVals \X ScoreVals : p[2] >= 0 \/ p[1] = 0 }

StrictArgs(es, short, b, mode, mm) ==
  Arrays(es, short) @@
  [ post1_12_any_y |-> mode, x0 |-> b.x0, x1 |-> b.x1, y0 |-> b.y0, y1 |-> b.y1,
    z0 |-> b.z0, z1 |-> b.z1, max_matches |-> mm ]

ScoredArgs(es, short, b, mode, mm, tol, ms) ==
  StrictArgs(es, short, b, mode, mm) @@ [tol |-> tol, max_score |-> ms]

\* The coordinates at which the scanners evaluate the signature.
CoordDom == { wrapping_add_i32(c, d) : c \in Coord, d \in OffsetVals }

\* packed_offset_12bit tabulated over the coordinates the scans reach.
SigTable ==
  [ f \in BOOLEAN |->
      [ x \in CoordDom |-> [ y \in CoordDom |-> [ z \in CoordDom |->
          packed_offset_12bit(x, y, z, f) ] ] ] ]

signature(x, y, z, post1_12) ==
  IF x \in CoordDom /\ y \in CoordDom /\ z \in CoordDom
  THEN SigTable[post1_12][x][y][z]
  ELSE packed_offset_12bit(x, y, z, post1_12)

(***************************************************************************)
(* Nibble matcher                                                           *)
(***************************************************************************)

RECURSIVE Pow16(_)
Pow16(n) == IF n = 0 THEN 1 ELSE 16 * Pow16(n - 1)

\* (v >> (axis * 4)) & 0xF
axis_nibble(v, axis) == (v \div Pow16(axis)) % 16

\* dripstone_nibble_matches without the low and high zones.
dripstone_nibble_matches_exact(expected, predicted) == predicted = expected

dripstone_nibble_matches(expected, predicted) ==
  IF expected <= 3 THEN predicted <= 3
  ELSE IF expected >= 12 THEN predicted >= 12
  ELSE predicted = expected

\* (a - b).abs() on small integers
abs_diff(a, b) == IF a >= b THEN a - b ELSE b - a

\* dripstone_nibble_distance with the low zone measured from 4.
dripstone_nibble_distance_from4(expected, predicted) ==
  IF expected <= 3 THEN (IF predicted <= 4 THEN 0 ELSE predicted - 4)
  ELSE IF expected >= 12 THEN (IF predicted >= 12 THEN 0 ELSE 12 - predicted)
  ELSE abs_diff(predicted, expected)

dripstone_nibble_distance(expected, predicted) ==
  IF expected <= 3 THEN (IF predicted <= 3 THEN 0 ELSE predicted - 3)
  ELSE IF expected >= 12 THEN (IF predicted >= 12 THEN 0 ELSE 12 - predicted)
  ELSE abs_diff(predicted, expected)

(***************************************************************************)
(* Results of a call                                                        *)
(***************************************************************************)

ErrLength == "Input arrays must have the same length."

ErrBounds == "Invalid bounds (min > max)."

NoErr == "ok"

\* Err(JsValue::from_str(msg)): no array is produced.
Err(msg) == [err |-> msg, out |-> <<>>, visited |-> 0]

\* Ok(Int32Array::from(out)); visited counts the candidates evaluated.
Ok(out, visited) == [err |-> NoErr, out |-> out, visited |-> visited]

\* validate without the comparison of z0 and z1.
validate_without_z(a) ==
  LET n == Len(a.rel_dx)
  IN  IF \/ Len(a.rel_dy) # n \/ Len(a.rel_dz) # n \/ Len(a.rel_packed) # n
         \/ Len(a.rel_mask) # n \/ Len(a.rel_drip) # n
      THEN ErrLength
      ELSE IF a.x0 > a.x1 \/ a.y0 > a.y1
      THEN ErrBounds
      ELSE NoErr

\* The two validation checks that open both scanners.
validate(a) ==
  LET n == Len(a.rel_dx)
  IN  IF \/ Len(a.rel_dy) # n \/ Len(a.rel_dz) # n \/ Len(a.rel_packed) # n
         \/ Len(a.rel_mask) # n \/ Len(a.rel_drip) # n
      THEN ErrLength
      ELSE IF a.x0 > a.x1 \/ a.y0 > a.y1 \/ a.z0 > a.z1
      THEN ErrBounds
      ELSE NoErr

(***************************************************************************)
(* Strict box scanner                                                       *)
(***************************************************************************)

\* The drip branch of one entry: the loop over the three axes, which stops
\* at the first failing axis.
RECURSIVE strict_drip_axes(_, _, _, _)
strict_drip_axes(pred, mask, exp, axis) ==
  IF axis > 2 THEN TRUE
  ELSE LET nib_mask == (mask \div Pow16(axis)) % 16
           pn       == axis_nibble(pred, axis)
           en       == axis_nibble(exp, axis)
       IN  IF nib_mask = 0 THEN strict_drip_axes(pred, mask, exp, axis + 1)
           ELSE IF axis = 1
           THEN (IF pn # en THEN FALSE
                 ELSE strict_drip_axes(pred, mask, exp, axis + 1))
           ELSE (IF ~dripstone_nibble_matches(en, pn) THEN FALSE
                 ELSE strict_drip_axes(pred, mask, exp, axis + 1))

\* strict_entry comparing the whole signature, the mask forgotten.
strict_entry_unmasked(a, i, x, y, z, post1_12) ==
  LET ax   == wrapping_add_i32(x, a.rel_dx[i])
      ay   == wrapping_add_i32(y, a.rel_dy[i])
      az   == wrapping_add_i32(z, a.rel_dz[i])
      pred == signature(ax, ay, az, post1_12)
      mask == a.rel_mask[i]
      exp  == a.rel_packed[i]
  IN  IF a.rel_drip[i] = 0
      THEN pred = exp
      ELSE strict_drip_axes(pred, mask, exp, 0)

\* One entry of the strict scan: FALSE where the source sets ok = false.
strict_entry(a, i, x, y, z, post1_12) ==
  LET ax   == wrapping_add_i32(x, a.rel_dx[i])
      ay   == wrapping_add_i32(y, a.rel_dy[i])
      az   == wrapping_add_i32(z, a.rel_dz[i])
      pred == signature(ax, ay, az, post1_12)
      mask == a.rel_mask[i]
      exp  == a.rel_packed[i]
  IN  IF a.rel_drip[i] = 0
      THEN BitAnd(pred, mask) = exp
      ELSE strict_drip_axes(pred, mask, exp, 0)

\* for i in 0..n with break at the first failing entry; the value of ok.
RECURSIVE strict_entries(_, _, _, _, _, _)
strict_entries(a, i, x, y, z, post1_12) ==
  IF i > Len(a.rel_dx) THEN TRUE
  ELSE IF ~strict_entry(a, i, x, y, z, post1_12) THEN FALSE
  ELSE strict_entries(a, i + 1, x, y, z, post1_12)

\* The nested loops over y in y..yEnd, z in z0..=z1, x in x0..=x1 from the
\* cursor (y, z, x), with the early return when the count reaches max_matches.
RECURSIVE strict_loop(_, _, _, _, _, _, _, _)
strict_loop(a, post1_12, yEnd, y, z, x, out, visited) ==
  IF y > yEnd THEN Ok(out, visited)
  ELSE IF z > a.z1 THEN strict_loop(a, post1_12, yEnd, y + 1, a.z0, a.x0, out, visited)
  ELSE IF x > a.x1 THEN strict_loop(a, post1_12, yEnd, y, z + 1, a.x0, out, visited)
  ELSE IF strict_entries(a, 1, x, y, z, post1_12)
       THEN LET pushed == out \o <<x, y, z>>
            IN  IF Len(pushed) \div 3 >= a.max_matches
                THEN Ok(pushed, visited + 1)
                ELSE strict_loop(a, post1_12, yEnd, y, z, x + 1, pushed, visited + 1)
       ELSE strict_loop(a, post1_12, yEnd, y, z, x + 1, out, visited + 1)

\* scan_strict_box computing the signature with y in y-invariant mode.
scan_strict_box_with_y(a) ==
  IF validate(a) # NoErr THEN Err(validate(a))
  ELSE IF a.post1_12_any_y
       THEN strict_loop(a, FALSE, a.y0, a.y0, a.z0, a.x0, <<>>, 0)
       ELSE strict_loop(a, FALSE, a.y1, a.y0, a.z0, a.x0, <<>>, 0)

scan_strict_box(a) ==
  IF validate(a) # NoErr THEN Err(validate(a))
  ELSE IF a.post1_12_any_y
       THEN strict_loop(a, TRUE, a.y0, a.y0, a.z0, a.x0, <<>>, 0)
       ELSE strict_loop(a, FALSE, a.y1, a.y0, a.z0, a.x0, <<>>, 0)

(***************************************************************************)
(* Scored box scanner                                                       *)
(***************************************************************************)

None == [some |-> FALSE, score |-> 0]

Some(s) == [some |-> TRUE, score |-> s]

\* add_penalty with `d < tol` in place of `d <= tol`.
add_penalty_below_tol(score, d, tol_i) ==
  IF d < tol_i THEN score + d ELSE score + d * d

\* if d <= tol_i { score += d } else { score += d * d }
add_penalty(score, d, tol_i) ==
  IF d <= tol_i THEN score + d ELSE score + d * d

\* The loop over the three axes of one entry, from the running score: None
\* as soon as the score exceeds max_score after an increment.
RECURSIVE check_axes(_, _, _, _, _, _, _)
check_axes(a, pred, exp, mask, drip, axis, score) ==
  IF axis > 2 THEN Some(score)
  ELSE
    LET nib_mask == (mask \div Pow16(axis)) % 16
        pn       == axis_nibble(pred, axis)
        en       == axis_nibble(exp, axis)
        d        == IF drip /\ axis # 1 THEN dripstone_nibble_distance(en, pn)
                    ELSE abs_diff(pn, en)
        score2   == add_penalty(score, d, a.tol)
    IN  IF nib_mask = 0 THEN check_axes(a, pred, exp, mask, drip, axis + 1, score)
        ELSE IF score2 > a.max_score THEN None
        ELSE check_axes(a, pred, exp, mask, drip, axis + 1, score2)

\* for i in 0..n of the closure check_candidate, from entry i.
RECURSIVE check_entries(_, _, _, _, _, _, _)
check_entries(a, i, score, x, y, z, post1_12) ==
  IF i > Len(a.rel_dx) THEN Some(score)
  ELSE
    LET ax   == wrapping_add_i32(x, a.rel_dx[i])
        ay   == wrapping_add_i32(y, a.rel_dy[i])
        az   == wrapping_add_i32(z, a.rel_dz[i])
        pred == signature(ax, ay, az, post1_12)
        exp  == a.rel_packed[i]
        mask == a.rel_mask[i]
        drip == a.rel_drip[i] # 0
        r    == check_axes(a, pred, exp, mask, drip, 0, score)
    IN  IF ~r.some THEN None
        ELSE check_entries(a, i + 1, r.score, x, y, z, post1_12)

\* check_candidate with the loop over the entries starting one too far.
check_candidate_from_second(a, x, y, z, post1_12) ==
  check_entries(a, 2, 0, x, y, z, post1_12)

check_candidate(a, x, y, z, post1_12) == check_entries(a, 1, 0, x, y, z, post1_12)

RECURSIVE scored_loop(_, _, _, _, _, _, _, _)
scored_loop(a, post1_12, yEnd, y, z, x, out, visited) ==
  IF y > yEnd THEN Ok(out, visited)
  ELSE IF z > a.z1 THEN scored_loop(a, post1_12, yEnd, y + 1, a.z0, a.x0, out, visited)
  ELSE IF x > a.x1 THEN scored_loop(a, post1_12, yEnd, y, z + 1, a.x0, out, visited)
  ELSE LET r == check_candidate(a, x, y, z, post1_12)
       IN  IF r.some
           THEN LET pushed == out \o <<x, y, z, r.score>>
                IN  IF Len(pushed) \div 4 >= a.max_matches
                    THEN Ok(pushed, visited + 1)
                    ELSE scored_loop(a, post1_12, yEnd, y, z, x + 1, pushed, visited + 1)
           ELSE scored_loop(a, post1_12, yEnd, y, z, x + 1, out, visited + 1)

scan_scored_box(a) ==
  IF validate(a) # NoErr THEN Err(validate(a))
  ELSE IF a.post1_12_any_y
       THEN scored_loop(a, TRUE, a.y0, a.y0, a.z0, a.x0, <<>>, 0)
       ELSE scored_loop(a, FALSE, a.y1, a.y0, a.z0, a.x0, <<>>, 0)

(***************************************************************************)
(* The calls as a state machine: a caller invokes one of the functions on   *)
(* some arguments and takes the result.                                     *)
(***************************************************************************)

VARIABLES pc, fn, args, res

vars == <<pc, fn, args, res>>

Init ==
  /\ pc = "idle"
  /\ fn = "none"
  /\ args = <<>>
  /\ res = <<>>

\* A caller passes the arguments a to the function f.
Call(f, a) ==
  /\ pc' = "called"
  /\ fn' = f
  /\ args' = a
  /\ res' = <<>>

\* scan_strict_box is called on arrays of equal length and a well-formed box.
CallStrict ==
  /\ pc = "idle"
  /\ \E es \in EntryLists, b \in ValidBoxes, mode \in BOOLEAN, mm \in MatchLimits :
       Call("scan_strict_box", StrictArgs(es, 0, b, mode, mm))

\* scan_strict_box is called on any box and on arrays one of which may be
\* shorter.
CallStrictAny ==
  /\ pc = "idle"
  /\ \E es \in SingleLists, short \in 0..6, b \in Boxes :
       Call("scan_strict_box", StrictArgs(es, short, b, FALSE, TruncAt))

\* scan_scored_box is called on arrays of equal length and a well-formed box.
CallScored ==
  /\ pc = "idle"
  /\ \E es \in EntryLists, b \in ValidBoxes, mode \in BOOLEAN, mm \in MatchLimits,
        p \in ScoreParams :
       Call("scan_scored_box", ScoredArgs(es, 0, b, mode, mm, p[1], p[2]))

\* scan_scored_box is called on any box and on arrays one of which may be
\* shorter.
CallScoredAny ==
  /\ pc = "idle"
  /\ \E es \in SingleLists, short \in 0..6, b \in Boxes :
       Call("scan_scored_box", ScoredArgs(es, short, b, FALSE, TruncAt, 0, 0))

\* The body of scan_strict_box, from entry to return.
RunStrict ==
  /\ pc = "called" /\ fn = "scan_strict_box"
  /\ res' = scan_strict_box(args)
  /\ pc' = "returned"
  /\ UNCHANGED <<fn, args>>

\* The body of scan_scored_box, from entry to return.
RunScored ==
  /\ pc = "called" /\ fn = "scan_scored_box"
  /\ res' = scan_scored_box(args)
  /\ pc' = "returned"
  /\ UNCHANGED <<fn, args>>

\* The caller consumes the result.
Return ==
  /\ pc = "returned"
  /\ pc' = "idle"
  /\ fn' = "none"
  /\ args' = <<>>
  /\ res' = <<>>

\* Coordinates at which the signature function is called on its own.
HashSpan == 1

HashVals == (-HashSpan..HashSpan) \cup {64, MinI32, MaxI32}

\* packed_offset_12bit is called on its own.
CallHash ==
  /\ pc = "idle"
  /\ \E x \in HashVals, y \in HashVals, z \in HashVals, f \in BOOLEAN :
       Call("packed_offset_12bit", [x |-> x, y |-> y, z |-> z, post1_12 |-> f])

\* The body of packed_offset_12bit.
RunHash ==
  /\ pc = "called" /\ fn = "packed_offset_12bit"
  /\ res' = packed_offset_12bit(args.x, args.y, args.z, args.post1_12)
  /\ pc' = "returned"
  /\ UNCHANGED <<fn, args>>

Next ==
  \/ CallStrict \/ CallStrictAny \/ RunStrict
  \/ CallScored \/ CallScoredAny \/ RunScored
  \/ Return

Spec == Init /\ [][Next]_vars

NextStrict == CallStrict \/ CallStrictAny \/ RunStrict \/ Return

SpecStrict == Init /\ [][NextStrict]_vars

NextScored == CallScored \/ CallScoredAny \/ RunScored \/ Return

SpecScored == Init /\ [][NextScored]_vars

NextHash == CallHash \/ RunHash \/ Return

SpecHash == Init /\ [][NextHash]_vars

(***************************************************************************)
(* Vocabulary of the properties                                             *)
(***************************************************************************)

Returned == pc = "returned"

IsStrict == fn = "scan_strict_box"

IsScored == fn = "scan_scored_box"

\* Elements per result: triples (x,y,z) or quadruples (x,y,z,score).
Width == IF IsStrict THEN 3 ELSE 4

\* The same function on other arguments.
Rerun(a) == IF IsStrict THEN scan_strict_box(a) ELSE scan_scored_box(a)

Min(m, n) == IF m <= n THEN m ELSE n

Count(out) == Len(out) \div Width

\* The k-th result of a flat output, as a tuple of Width numbers.
Item(out, k) == SubSeq(out, (k - 1) * Width + 1, k * Width)

Items(out) == { Item(out, k) : k \in 1..Count(out) }

LengthsDiffer(a) ==
  \E f \in {a.rel_dy, a.rel_dz, a.rel_packed, a.rel_mask, a.rel_drip} :
     Len(f) # Len(a.rel_dx)

BoundsInverted(a) == a.x0 > a.x1 \/ a.y0 > a.y1 \/ a.z0 > a.z1

\* Number of candidates of the box [x0,x1] x [y0,y1] x [z0,z1].
BoxCount(a) == (a.x1 - a.x0 + 1) * (a.y1 - a.y0 + 1) * (a.z1 - a.z0 + 1)

\* The y values a call enumerates.
ScannedYs(a) == IF a.post1_12_any_y THEN {a.y0} ELSE a.y0..a.y1

FullBox(a) == (a.x0..a.x1) \X (a.y0..a.y1) \X (a.z0..a.z1)

ScannedBox(a) == (a.x0..a.x1) \X ScannedYs(a) \X (a.z0..a.z1)

\* Position of the candidate c = (x,y,z) in the scan order: y outermost,
\* z middle, x innermost, counted from 1.
ScanIndex(a, c) ==
  ((c[2] - a.y0) * (a.z1 - a.z0 + 1) + (c[3] - a.z0)) * (a.x1 - a.x0 + 1)
    + (c[1] - a.x0) + 1

\* The signature the i-th entry looks at for the candidate c.
EntrySignature(a, i, c) ==
  signature(wrapping_add_i32(c[1], a.rel_dx[i]), wrapping_add_i32(c[2], a.rel_dy[i]),
            wrapping_add_i32(c[3], a.rel_dz[i]), a.post1_12_any_y)

Nibble(v, axis) == (v \div Pow16(axis)) % 16

\* The three-zone rule of a drip entry on axes 0 and 2.
ThreeZone(e, p) ==
  IF e <= 3 THEN p <= 3
  ELSE IF e >= 12 THEN p >= 12
  ELSE p = e

\* Entry i passes on the candidate c.
EntryPasses(a, i, c) ==
  LET p == EntrySignature(a, i, c)
  IN  IF a.rel_drip[i] = 0
      THEN BitAnd(p, a.rel_mask[i]) = a.rel_packed[i]
      ELSE \A axis \in 0..2 :
             Nibble(a.rel_mask[i], axis) # 0 =>
               IF axis = 1
               THEN Nibble(p, 1) = Nibble(a.rel_packed[i], 1)
               ELSE ThreeZone(Nibble(a.rel_packed[i], axis), Nibble(p, axis))

AllPass(a, c) == \A i \in 1..Len(a.rel_dx) : EntryPasses(a, i, c)

\* The results are in strictly increasing scan order.
InScanOrder(a, out) ==
  \A j, k \in 1..Count(out) :
     j < k => ScanIndex(a, SubSeq(Item(out, j), 1, 3)) < ScanIndex(a, SubSeq(Item(out, k), 1, 3))

\* (y, z, x) lexicographic order on candidates (x, y, z).
LexLess(c, d) ==
  \/ c[2] < d[2]
  \/ c[2] = d[2] /\ c[3] < d[3]
  \/ c[2] = d[2] /\ c[3] = d[3] /\ c[1] < d[1]

(***************************************************************************)
(* C1: truncation at max_matches                                            *)
(***************************************************************************)

\* C1: for every valid input and every max_matches >= 0, 0 included, the
\* returned sequence is exactly the first min(max_matches, N) results of the
\* sequence the same call produces without a limit (N its length); the
\* number of results never exceeds max_matches, and the scan stops as soon as
\* the count reaches max_matches: no candidate is evaluated after the one
\* that completes the count.
C1_PrefixOfUnlimited ==
  (Returned /\ res.err = NoErr) =>
    LET full == Rerun([args EXCEPT !.max_matches = MaxI32]).out
        k    == Min(args.max_matches, Count(full))
    IN  /\ res.out = SubSeq(full, 1, k * Width)
        /\ Count(res.out) <= args.max_matches
        /\ k = args.max_matches =>
             res.visited = IF k = 0 THEN 0
                           ELSE ScanIndex(args, SubSeq(Item(full, k), 1, 3))

(***************************************************************************)
(* C2: emitted scores are within max_score                                  *)
(***************************************************************************)

\* C2: every quadruple (x,y,z,score) emitted by scan_scored_box has
\* score <= max_score, for every max_score, negative ones included, and every
\* constraint list, the empty one and entries of mask 0 included.
C2_ScoreWithinMax ==
  (Returned /\ IsScored) =>
    \A k \in 1..Count(res.out) : Item(res.out, k)[4] <= args.max_score

(***************************************************************************)
(* C3: what the strict scan returns                                         *)
(***************************************************************************)

StrictUnlimited ==
  /\ Returned /\ IsStrict /\ res.err = NoErr
  /\ args.max_matches >= BoxCount(args)

\* C3 as stated: with max_matches at least the number of candidates of the
\* box, scan_strict_box returns exactly the candidates of the inclusive box
\* [x0,x1] x [y0,y1] x [z0,z1] on which every entry passes, each once and in
\* strictly increasing (y,z,x) order.
C3_AllOfFullBox ==
  StrictUnlimited =>
    /\ Items(res.out) = { c \in FullBox(args) : AllPass(args, c) }
    /\ \A j, k \in 1..Count(res.out) :
         j < k => LexLess(Item(res.out, j), Item(res.out, k))

\* C3 amended: the same of the box the call enumerates, which in
\* y-invariant mode is [x0,x1] x {y0} x [z0,z1], the signature being taken
\* with the mode flag of the call.
C3_AllOfScannedBox ==
  StrictUnlimited =>
    /\ Items(res.out) = { c \in ScannedBox(args) : AllPass(args, c) }
    /\ \A j, k \in 1..Count(res.out) :
         j < k => LexLess(Item(res.out, j), Item(res.out, k))

\* A strict scan with a drip entry that some candidates of the box pass and
\* others fail.
C3_Witness ==
  /\ StrictUnlimited
  /\ \E i \in 1..Len(args.rel_drip) : args.rel_drip[i] # 0 /\ args.rel_mask[i] # 0
  /\ Count(res.out) >= 2
  /\ Count(res.out) < Cardinality(ScannedBox(args))

(***************************************************************************)
(* C4: validation                                                           *)
(***************************************************************************)

NothingProduced == res.out = <<>> /\ res.visited = 0

\* C4 as stated: arrays of different lengths give the length error, inverted
\* bounds give the bounds error, in both cases nothing is produced and no
\* candidate is evaluated, and a call that passes both checks returns no
\* error.
C4_EachErrorKind ==
  Returned =>
    /\ LengthsDiffer(args) => res.err = ErrLength
    /\ BoundsInverted(args) => res.err = ErrBounds
    /\ res.err # NoErr => NothingProduced
    /\ (~LengthsDiffer(args) /\ ~BoundsInverted(args)) => res.err = NoErr

\* C4 amended: the length check comes first; inverted bounds give the bounds
\* error when the six arrays have the same length.
C4_LengthCheckFirst ==
  Returned =>
    /\ LengthsDiffer(args) => res.err = ErrLength
    /\ (~LengthsDiffer(args) /\ BoundsInverted(args)) => res.err = ErrBounds
    /\ res.err # NoErr => NothingProduced
    /\ (~LengthsDiffer(args) /\ ~BoundsInverted(args)) => res.err = NoErr

\* A scored call on arrays of equal length whose box is inverted on z only.
C4_Witness ==
  /\ Returned /\ IsScored
  /\ ~LengthsDiffer(args)
  /\ args.x0 <= args.x1 /\ args.y0 <= args.y1 /\ args.z0 > args.z1
  /\ res.err = ErrBounds

(***************************************************************************)
(* C5: an entry of mask 0 on a single-point box                             *)
(***************************************************************************)

SinglePointZeroMask ==
  /\ Returned /\ IsStrict
  /\ args.x0 = args.x1 /\ args.y0 = args.y1 /\ args.z0 = args.z1
  /\ Len(args.rel_dx) = 1 /\ ~LengthsDiffer(args)
  /\ args.rel_mask[1] = 0

\* C5 as stated: whatever the offset, the expected value and the drip flag
\* of the single entry of mask 0, the strict scan of a single-point box
\* returns exactly (x0,y0,z0).
C5_ZeroMaskAlwaysMatches ==
  SinglePointZeroMask =>
    res.err = NoErr /\ res.out = <<args.x0, args.y0, args.z0>>

\* C5 amended: so it is when the entry is drip-flagged or its expected value
\* is 0.
C5_ZeroMaskMatches ==
  (SinglePointZeroMask /\ (args.rel_drip[1] # 0 \/ args.rel_packed[1] = 0)) =>
    res.err = NoErr /\ res.out = <<args.x0, args.y0, args.z0>>

\* A single-point box off the origin, with a non-drip entry of mask 0 and
\* offset (1,1,1), returned as the one result.
C5_Witness ==
  /\ SinglePointZeroMask
  /\ args.rel_drip[1] = 0 /\ args.rel_packed[1] = 0
  /\ args.rel_dx[1] = 1 /\ args.x0 = 1 /\ args.max_matches >= 1
  /\ res.out = <<args.x0, args.y0, args.z0>>

(***************************************************************************)
(* C7: y-invariant mode                                                     *)
(***************************************************************************)

\* A result without its y: (x, z) or (x, z, score).
DropY(item) == <<item[1]>> \o SubSeq(item, 3, Len(item))

WithoutY(out) == [k \in 1..Count(out) |-> DropY(Item(out, k))]

\* Other values (y0, y1, dy) of the y bounds and of every dy offset.  Every
\* call is compared with the same calls, so any two calls that differ in
\* y0, y1 and the dy offsets only are compared with each other.
YAlternatives == { <<0, 0, 0>>, <<0, MaxCoord, 1>>, <<MaxCoord, MaxCoord, MaxI32>> }

\* C7: in y-invariant mode every result has y = y0, and the (x,z) pairs and
\* scores do not depend on y0, y1 or the dy offsets: a call that differs in
\* them only returns the same results but for y.
C7_YInvariant ==
  (Returned /\ res.err = NoErr /\ args.post1_12_any_y) =>
    /\ \A k \in 1..Count(res.out) : Item(res.out, k)[2] = args.y0
    /\ \A alt \in YAlternatives :
         LET other == Rerun([args EXCEPT !.y0 = alt[1], !.y1 = alt[2],
                               !.rel_dy = [i \in 1..Len(args.rel_dy) |-> alt[3]]])
         IN  other.err = NoErr /\ WithoutY(other.out) = WithoutY(res.out)

\* A y-invariant scan at y0 = 1 with an entry of nonzero dy that some
\* candidates pass and others fail.
C7_Witness ==
  /\ Returned /\ res.err = NoErr /\ args.post1_12_any_y
  /\ args.y0 = 1 /\ args.max_matches >= 1
  /\ \E i \in 1..Len(args.rel_dy) : args.rel_dy[i] # 0 /\ args.rel_mask[i] # 0
  /\ Count(res.out) >= 1
  /\ res.visited > Count(res.out)

(***************************************************************************)
(* C8: the running score                                                    *)
(***************************************************************************)

AbsDiff(m, n) == IF m >= n THEN m - n ELSE n - m

\* Tolerant distance of a drip entry on axes 0 and 2.
TolerantDistance(e, p) ==
  IF ThreeZone(e, p) THEN 0
  ELSE IF e <= 3 THEN p - 3
  ELSE IF e >= 12 THEN 12 - p
  ELSE AbsDiff(p, e)

\* The steps of a candidate: step s in 1..3n is axis (s-1) % 3 of entry
\* (s-1) \div 3 + 1; it counts when the mask nibble of the axis is nonzero.
StepEntry(s) == ((s - 1) \div 3) + 1

StepAxis(s) == (s - 1) % 3

StepCounts(a, s) == Nibble(a.rel_mask[StepEntry(s)], StepAxis(s)) # 0

Increment(a, c, s) ==
  LET i == StepEntry(s)
      p == Nibble(EntrySignature(a, i, c), StepAxis(s))
      e == Nibble(a.rel_packed[i], StepAxis(s))
      d == IF a.rel_drip[i] # 0 /\ StepAxis(s) # 1
           THEN TolerantDistance(e, p) ELSE AbsDiff(p, e)
  IN  IF ~StepCounts(a, s) THEN 0
      ELSE IF d <= a.tol THEN d ELSE d * d

\* The running score after step s.
RECURSIVE Running(_, _, _)
Running(a, c, s) == IF s = 0 THEN 0 ELSE Running(a, c, s - 1) + Increment(a, c, s)

Steps(a) == 1..(3 * Len(a.rel_dx))

\* The running score exceeds max_score after some increment.
Exceeds(a, c) ==
  \E s \in Steps(a) : StepCounts(a, s) /\ Running(a, c, s) > a.max_score

\* The candidates the scan has evaluated when it returns.
Visited(a, r) == { c \in ScannedBox(a) : ScanIndex(a, c) <= r.visited }

\* C8: the running score starts at 0 and grows, entry by entry and axis by
\* axis over the nonzero mask nibbles, by d when d <= tol and by d*d
\* otherwise; a candidate is excluded as soon as the running score exceeds
\* max_score after an increment, whatever follows, and an emitted candidate
\* carries the total of its increments.
C8_RunningScore ==
  (Returned /\ IsScored /\ res.err = NoErr) =>
    /\ Items(res.out) =
         { <<c[1], c[2], c[3], Running(args, c, 3 * Len(args.rel_dx))>> :
             c \in { v \in Visited(args, res) : ~Exceeds(args, v) } }
    /\ InScanOrder(args, res.out)

\* A scored scan of two entries with tol = 2 in which a candidate was
\* excluded by the first entry although the second entry adds nothing, and
\* a candidate was emitted with a score made of increments within tol.
C8_Witness ==
  /\ Returned /\ IsScored /\ res.err = NoErr
  /\ Len(args.rel_dx) = 2 /\ args.tol = 2 /\ args.max_matches >= 1
  /\ \E c \in Visited(args, res) :
       /\ \E s \in 1..3 : StepCounts(args, s) /\ Running(args, c, s) > args.max_score
       /\ \E s \in 4..6 : StepCounts(args, s)
       /\ \A s \in 4..6 : Increment(args, c, s) = 0
       /\ \A k \in 1..Count(res.out) : SubSeq(Item(res.out, k), 1, 3) # c
  /\ \E k \in 1..Count(res.out) : Item(res.out, k)[4] \in 1..2

(***************************************************************************)
(* C9: the order of the entries                                             *)
(***************************************************************************)

Perms(n) == { p \in [1..n -> 1..n] : \A i, j \in 1..n : i # j => p[i] # p[j] }

Permuted(a, p) ==
  [a EXCEPT !.rel_dx     = [i \in 1..Len(p) |-> a.rel_dx[p[i]]],
            !.rel_dy     = [i \in 1..Len(p) |-> a.rel_dy[p[i]]],
            !.rel_dz     = [i \in 1..Len(p) |-> a.rel_dz[p[i]]],
            !.rel_packed = [i \in 1..Len(p) |-> a.rel_packed[p[i]]],
            !.rel_mask   = [i \in 1..Len(p) |-> a.rel_mask[p[i]]],
            !.rel_drip   = [i \in 1..Len(p) |-> a.rel_drip[p[i]]]]

\* C9: the same permutation applied to the six constraint sequences leaves
\* the output of either scanner unchanged, coordinates and scores.
C9_OrderIrrelevant ==
  (Returned /\ ~LengthsDiffer(args)) =>
    \A p \in Perms(Len(args.rel_dx)) :
       p # [i \in 1..Len(p) |-> i] => Rerun(Permuted(args, p)).out = res.out

\* A scored scan of two different entries that emits some candidates with a
\* positive score and excludes others.
C9_Witness ==
  /\ Returned /\ IsScored /\ res.err = NoErr
  /\ Len(args.rel_dx) = 2 /\ args.max_matches >= 1
  /\ <<args.rel_packed[1], args.rel_mask[1]>> # <<args.rel_packed[2], args.rel_mask[2]>>
  /\ \E k \in 1..Count(res.out) : Item(res.out, k)[4] > 0
  /\ res.visited > Count(res.out)

(***************************************************************************)
(* C10: the scored scan at max_score 0 against the strict scan              *)
(***************************************************************************)

\* Every mask nibble is 0x0 or 0xF and no expected value has a bit outside
\* its mask.
NibbleAligned(a) ==
  \A i \in 1..Len(a.rel_mask) :
     /\ \A axis \in 0..2 : Nibble(a.rel_mask[i], axis) \in {0, 15}
     /\ a.rel_mask[i] < 4096
     /\ BitAnd(a.rel_packed[i], a.rel_mask[i]) = a.rel_packed[i]

\* The arguments of scan_strict_box among those of scan_scored_box.
StrictPart(a) ==
  [f \in DOMAIN a \ {"tol", "max_score"} |-> a[f]]

\* C10: under nibble-aligned masks, scan_scored_box with max_score = 0
\* accepts exactly the candidates scan_strict_box accepts on the same
\* constraints, box, mode and max_matches, in the same order, each with
\* score 0.
C10_ScoredZeroIsStrict ==
  (Returned /\ IsScored /\ ~LengthsDiffer(args) /\ args.max_score = 0
     /\ NibbleAligned(args)) =>
    LET s == scan_strict_box(StrictPart(args))
    IN  /\ res.err = s.err
        /\ Count(res.out) = Len(s.out) \div 3
        /\ \A k \in 1..Count(res.out) :
             Item(res.out, k) = SubSeq(s.out, 3 * k - 2, 3 * k) \o <<0>>

\* A scored scan at max_score 0 with a drip entry that some candidates pass
\* and others fail.
C10_Witness ==
  /\ Returned /\ IsScored /\ res.err = NoErr /\ args.max_score = 0
  /\ NibbleAligned(args)
  /\ \E i \in 1..Len(args.rel_drip) : args.rel_drip[i] # 0 /\ args.rel_mask[i] # 0
  /\ Count(res.out) >= 2
  /\ res.visited > Count(res.out)

(***************************************************************************)
(* C6: the signature, bit by bit                                            *)
(***************************************************************************)

\* Bit k (from 0) of the two's complement of an i32.
I32Bit(x, k) ==
  IF k = 31 THEN (IF x < 0 THEN 1 ELSE 0)
  ELSE ((IF x < 0 THEN (x + MaxI32) + 1 ELSE x) \div (2 ^ k)) % 2

\* Words are sequences of bits, least significant first.
Word32(x) == [k \in 1..32 |-> I32Bit(x, k - 1)]

\* Sign extension of a 32-bit word to 64 bits.
Widen(u) == [k \in 1..64 |-> u[IF k > 32 THEN 32 ELSE k]]

Word64(x) == Widen(Word32(x))

\* The product of two words modulo 2^w, column by column from column k.
RECURSIVE MulColumns(_, _, _, _, _)
MulColumns(u, v, w, k, carry) ==
  IF k > w THEN <<>>
  ELSE LET t == carry + Cardinality({ i \in 1..k : u[i] = 1 /\ v[k + 1 - i] = 1 })
       IN  <<t % 2>> \o MulColumns(u, v, w, k + 1, t \div 2)

WordMul(u, v, w) == MulColumns(u, v, w, 1, 0)

RECURSIVE AddColumns(_, _, _, _)
AddColumns(u, v, k, carry) ==
  IF k > 64 THEN <<>>
  ELSE <<(u[k] + v[k] + carry) % 2>>
         \o AddColumns(u, v, k + 1, (u[k] + v[k] + carry) \div 2)

WordAdd(u, v) == AddColumns(u, v, 1, 0)

WordXor(u, v) == [k \in 1..64 |-> (u[k] + v[k]) % 2]

\* The number made of the n bits of u from bit lo.
RECURSIVE BitsValue(_, _, _)
BitsValue(u, lo, n) == IF n = 0 THEN 0 ELSE u[lo] + 2 * BitsValue(u, lo + 1, n - 1)

\* The documented formula.
Documented(x, y, z, flag) ==
  LET x_term == Widen(WordMul(Word32(x), Word32(3129871), 32))
      z_term == WordMul(Word64(z), Word64(116129781), 64)
      y_used == Word64(IF flag THEN 0 ELSE y)
      l      == WordXor(WordXor(x_term, z_term), y_used)
      l1     == WordAdd(WordMul(WordMul(l, l, 64), Word64(42317861), 64),
                        WordMul(l, Word64(11), 64))
  IN  BitsValue(l1, 17, 12)

HashReturned == pc = "returned" /\ fn = "packed_offset_12bit"

\* C6: packed_offset_12bit(x,y,z,flag) is the documented formula bit for
\* bit: x*3129871 wrapped to 32 bits and sign-extended, z*116129781 in 64
\* bits, y dropped under the flag, l = x_term XOR z_term XOR y_used,
\* l*l*42317861 + l*11 in 64 bits, bits 16..27 of the result; it is in
\* 0..4095, and it is 0 at (0,0,0,false).
C6_BitExact ==
  HashReturned =>
    /\ res = Documented(args.x, args.y, args.z, args.post1_12)
    /\ res \in 0..4095
    /\ (args.x = 0 /\ args.y = 0 /\ args.z = 0 /\ ~args.post1_12) => res = 0

\* The signature of (1, 64, -1) outside y-invariant mode, which is 656.
C6_Witness ==
  /\ HashReturned
  /\ args = [x |-> 1, y |-> 64, z |-> -1, post1_12 |-> FALSE]
  /\ res = 656

====
